---- MODULE Spec2Model ----
(***************************************************************************)
(* Model of the RLM PDF chatbot: the text normaliser and the PDF extractor *)
(* of ui/utils.py and the session handled by the script of ui/app.py.      *)
(*                                                                         *)
(* A string is a sequence of integers.  A positive integer is a Unicode    *)
(* code point; a negative integer abbreviates one fixed literal run of     *)
(* ASCII text of the source (RULE, STRICT_QUERY_PREFIX, FALLBACK_ANSWER).  *)
(* Python's None is the empty tuple <<>> and a present value x is <<x>>.   *)
(***************************************************************************)
EXTENDS Integers, Sequences, FiniteSets, TLC

None == <<>>
Some(x) == <<x>>
IsNone(o) == o = <<>>
Val(o) == o[1]

\* ------------------------------------------------------------------ bounds
MaxAsks == 2          \* questions accepted in one run of the session specification
MaxFiles == 2         \* longest uploaded batch of the extraction specification
MaxPages == 2         \* most pages of one document

\* ------------------------------------------------------- literals of the source
RULE == -1                    \* '=' * 60
STRICT_QUERY_PREFIX == -2     \* the anti-hallucination preamble
FALLBACK_ANSWER == -3         \* "I could not generate a response. ..."

NL == <<10>>
FILE_LABEL == <<70, 73, 76, 69, 58, 32>>                 \* "FILE: "
PAGE_OPEN == <<45, 45, 45, 32, 80, 97, 103, 101, 32>>    \* "--- Page "
PAGE_CLOSE == <<32, 45, 45, 45>>                         \* " ---"
ERR_READING == <<91, 69, 114, 114, 111, 114, 32, 114, 101, 97, 100, 105, 110, 103, 32>>  \* "[Error reading "
ERR_PREFIX == <<69, 114, 114, 111, 114, 58, 32>>         \* "Error: "
COLON_SP == <<58, 32>>                                   \* ": "
RBRACKET == <<93>>                                       \* "]"

\* --------------------------------------------------------- generic helpers
RECURSIVE Concat(_)
\* "".join(parts)
Concat(parts) ==
    IF parts = <<>> THEN <<>> ELSE Head(parts) \o Concat(Tail(parts))

RECURSIVE Join(_, _)
\* sep.join(parts)
Join(sep, parts) ==
    IF parts = <<>> THEN <<>>
    ELSE IF Len(parts) = 1 THEN parts[1]
    ELSE parts[1] \o sep \o Join(sep, Tail(parts))

RECURSIVE Digits(_)
\* str(n) for a natural number n
Digits(n) ==
    IF n < 10 THEN <<48 + n>> ELSE Digits(n \div 10) \o <<48 + (n % 10)>>

\* ------------------------------------------------------- normalize_text
\* Compatibility decomposition of one code point (unicodedata, NFKC), for the
\* code points the model feeds in; every other code point of the model's
\* alphabet is its own decomposition.
Decompose(c) ==
    CASE c = 8230  -> <<46, 46, 46>>      \* U+2026 ellipsis -> "..."
      [] c = 160   -> <<32>>              \* U+00A0 no-break space -> " "
      [] c = 181   -> <<956>>             \* U+00B5 micro sign -> U+03BC mu
      [] c = 64257 -> <<102, 105>>        \* U+FB01 ligature fi -> "fi"
      [] c = 9312  -> <<49>>              \* U+2460 circled one -> "1"
      [] c = 8486  -> <<937>>             \* U+2126 ohm sign -> U+03A9
      [] c = 189   -> <<49, 8260, 50>>    \* U+00BD one half -> "1", U+2044, "2"
      [] OTHER     -> <<c>>

RECURSIVE DecomposeAll(_)
DecomposeAll(text) ==
    IF text = <<>> THEN <<>> ELSE Decompose(Head(text)) \o DecomposeAll(Tail(text))

RECURSIVE ComposeAll(_)
\* Canonical composition: "e" followed by U+0301 composes to U+00E9.
ComposeAll(text) ==
    IF Len(text) < 2 THEN text
    ELSE IF text[1] = 101 /\ text[2] = 769
         THEN <<233>> \o ComposeAll(Tail(Tail(text)))
         ELSE <<text[1]>> \o ComposeAll(Tail(text))

\* unicodedata.normalize("NFKC", text)
NFKC(text) == ComposeAll(DecomposeAll(text))

\* A substitution table whose ellipsis key is mistyped as a full stop.
replacements_DotKey ==
    << [char |-> 8722, replacement |-> <<45>>],
       [char |-> 46, replacement |-> <<46, 46, 46>>],
       [char |-> 960, replacement |-> <<112, 105>>] >>

\* The substitution table, in the order the dictionary is iterated.
replacements ==
    << [char |-> 8722, replacement |-> <<45>>],                       \* minus sign
       [char |-> 8211, replacement |-> <<45>>],                       \* en dash
       [char |-> 8212, replacement |-> <<45>>],                       \* em dash
       [char |-> 8216, replacement |-> <<39>>],                       \* left single quote
       [char |-> 8217, replacement |-> <<39>>],                       \* right single quote
       [char |-> 8220, replacement |-> <<34>>],                       \* left double quote
       [char |-> 8221, replacement |-> <<34>>],                       \* right double quote
       [char |-> 8230, replacement |-> <<46, 46, 46>>],               \* ellipsis
       [char |-> 160, replacement |-> <<32>>],                        \* no-break space
       [char |-> 8727, replacement |-> <<42>>],                       \* asterisk operator
       [char |-> 8226, replacement |-> <<45>>],                       \* bullet
       [char |-> 183, replacement |-> <<45>>],                        \* middle dot
       [char |-> 8594, replacement |-> <<45, 62>>],                   \* right arrow
       [char |-> 8592, replacement |-> <<60, 45>>],                   \* left arrow
       [char |-> 8804, replacement |-> <<60, 61>>],                   \* less or equal
       [char |-> 8805, replacement |-> <<62, 61>>],                   \* greater or equal
       [char |-> 215, replacement |-> <<120>>],                       \* multiplication sign
       [char |-> 247, replacement |-> <<47>>],                        \* division sign
       [char |-> 8730, replacement |-> <<115, 113, 114, 116>>],       \* square root
       [char |-> 945, replacement |-> <<97, 108, 112, 104, 97>>],     \* alpha
       [char |-> 946, replacement |-> <<98, 101, 116, 97>>],          \* beta
       [char |-> 947, replacement |-> <<103, 97, 109, 109, 97>>],     \* gamma
       [char |-> 955, replacement |-> <<108, 97, 109, 98, 100, 97>>], \* lambda
       [char |-> 960, replacement |-> <<112, 105>>],                  \* pi
       [char |-> 963, replacement |-> <<115, 105, 103, 109, 97>>],    \* sigma
       [char |-> 956, replacement |-> <<109, 117>>] >>                \* mu

RECURSIVE Replace(_, _, _)
\* text.replace(char, replacement) for a one-character char
Replace(text, char, replacement) ==
    IF text = <<>> THEN <<>>
    ELSE (IF Head(text) = char THEN replacement ELSE <<Head(text)>>)
         \o Replace(Tail(text), char, replacement)

RECURSIVE ApplyReplacements(_, _)
\* for char, replacement in replacements.items(): text = text.replace(...)
ApplyReplacements(text, table) ==
    IF table = <<>> THEN text
    ELSE ApplyReplacements(
             Replace(text, Head(table).char, Head(table).replacement), Tail(table))

\* text.encode('latin-1', errors='replace').decode('latin-1')
EncodeAscii_Latin1(text) ==
    [i \in 1..Len(text) |-> IF text[i] < 256 THEN text[i] ELSE 63]

\* text.encode('ascii', errors='replace').decode('ascii')
EncodeAscii(text) ==
    [i \in 1..Len(text) |-> IF text[i] < 128 THEN text[i] ELSE 63]

normalize_text(text) ==
    EncodeAscii(ApplyReplacements(NFKC(text), replacements))

\* str.isspace of one code point
IsSpace(c) ==
    c \in (9..13) \cup (28..32) \cup {133, 160, 5760} \cup (8192..8202)
          \cup {8232, 8233, 8239, 8287, 12288}

\* bool(text.strip())
StripNonEmpty(text) == \E i \in 1..Len(text) : ~IsSpace(text[i])

\* ------------------------------------------------- extract_text_from_pdfs
\* An uploaded file is [name, openErr, pages]: openErr is None, or Some(e) when
\* file.read() or fitz.open() raises e; a page is [text, err] with err None, or
\* Some(e) when page.get_text() raises e.

\* f"\n{'='*60}\nFILE: {file.name}\n{'='*60}\n"
FileBanner(name) == NL \o <<RULE>> \o NL \o FILE_LABEL \o name \o NL \o <<RULE>> \o NL

\* f"\n--- Page {page_num} ---\n"
PageBanner(page_num) == NL \o PAGE_OPEN \o Digits(page_num) \o PAGE_CLOSE \o NL

\* f"\n[Error reading {file.name}: {e}]\n"
ErrorMarker(name, e) == NL \o ERR_READING \o name \o COLON_SP \o e \o RBRACKET \o NL

\* What one page appends to file_text (lines 84-88).
PageParts(page, page_num) ==
    IF StripNonEmpty(page.text)
    THEN <<PageBanner(page_num), normalize_text(page.text)>>
    ELSE <<>>

RECURSIVE PagesLoop(_, _, _)
\* The page loop from page_num on: the exception it raises, if any, and the
\* file_text it has built.
PagesLoop(pages, page_num, file_text) ==
    IF page_num > Len(pages) THEN [err |-> None, file_text |-> file_text]
    ELSE IF ~IsNone(pages[page_num].err)
         THEN [err |-> pages[page_num].err, file_text |-> file_text]
         ELSE PagesLoop(pages, page_num + 1,
                        file_text \o PageParts(pages[page_num], page_num))

\* What the body of the file loop appends to all_text for one file.
FileFragment(file) ==
    IF ~IsNone(file.openErr) THEN ErrorMarker(file.name, Val(file.openErr))
    ELSE LET r == PagesLoop(file.pages, 1, <<FileBanner(file.name)>>)
         IN  IF IsNone(r.err) THEN Concat(r.file_text)
             ELSE ErrorMarker(file.name, Val(r.err))

extract_text_from_pdfs(files) ==
    Join(NL, [i \in 1..Len(files) |-> FileFragment(files[i])])

\* ------------------------------------------------------------------ state
VARIABLES
    messages,            \* st.session_state.messages
    rlm_instance,        \* st.session_state.rlm_instance
    pdf_context,         \* st.session_state.pdf_context
    context_loaded,      \* st.session_state.context_loaded
    DEFAULT_OPENAI_KEY,  \* os.getenv("OPENAI_API_KEY", "")
    DEFAULT_GEMINI_KEY,  \* os.getenv("GEMINI_API_KEY", "")
    pc,                  \* position of the script run: "idle" or "answering"
    prompt,              \* the question of the chat handler in progress
    notice,              \* what the last handler step showed (st.error, st.success, ...)
    n_completions,       \* calls of rlm.completion made so far
    uploaded_files,      \* extractor: its argument
    xpc,                 \* extractor: position in extract_text_from_pdfs
    file_idx,            \* extractor: index of the file of the for loop
    page_num,            \* extractor: page_num of the page loop
    all_text,            \* extractor: all_text
    file_text,           \* extractor: file_text
    open_docs,           \* extractor: indexes of the files whose fitz document is open
    result,              \* extractor: the returned string
    widgets,             \* the sidebar's widget values of the configuration specification
    norm_trace           \* a text and the results of normalising it again and again

session == <<messages, rlm_instance, pdf_context, context_loaded>>
env == <<DEFAULT_OPENAI_KEY, DEFAULT_GEMINI_KEY>>
script == <<pc, prompt, notice, n_completions>>
extractor == <<uploaded_files, xpc, file_idx, page_num, all_text, file_text,
               open_docs, result>>
aside == <<widgets, norm_trace>>
vars == <<session, env, script, extractor, aside>>

\* ------------------------------------------------------------- input sets
BAD == <<98, 97, 100>>                 \* str(e) of a failure: "bad"
Q_WHAT == <<119, 104, 97, 116, 63>>    \* "what?"
Q_WHY == <<119, 104, 121, 63>>         \* "why?"
A_OK == <<111, 107>>                   \* "ok"
Questions == {Q_WHAT, Q_WHY}
\* response.response of a completion that returns
Responses == {None, Some(<<>>), Some(A_OK)}
Failures == {BAD}
EnvKeys == {"", "sk-env"}
UserKeys == {"", "sk-user"}
BaseUrls == {"http://localhost:11434/v1", ""}

\* The i-th file of a batch is named "X", "Y", "Z", ...; its page texts carry
\* the same letter, so that a page's text tells which file it came from.
NameOf(i) == <<87 + i>>
PageTexts(i) == {<<87 + i, 8722>>, <<32, 160>>}
ReadablePages(i) == {[text |-> t, err |-> None] : t \in PageTexts(i)}
FailingPages == {[text |-> <<>>, err |-> Some(e)] : e \in Failures}
\* The pages of a document, up to the first page whose get_text raises (the
\* pages behind it are never read).
PageSeqs(i) ==
    LET readable(n) == [1..n -> ReadablePages(i)]
    IN  UNION {readable(n) : n \in 0..MaxPages}
        \cup UNION {{Append(ps, bad) : ps \in readable(n - 1), bad \in FailingPages} :
                       n \in 1..MaxPages}
Files(i) == {[name |-> NameOf(i), openErr |-> Some(e), pages |-> <<>>] : e \in Failures}
            \cup {[name |-> NameOf(i), openErr |-> None, pages |-> ps] : ps \in PageSeqs(i)}
RECURSIVE BatchesOfLen(_)
BatchesOfLen(n) ==
    IF n = 0 THEN {<<>>}
    ELSE {Append(b, f) : b \in BatchesOfLen(n - 1), f \in Files(n)}
Batches == UNION {BatchesOfLen(n) : n \in 0..MaxFiles}

\* The batches the sidebar uploads in the session specification.
GoodX == [name |-> NameOf(1), openErr |-> None,
          pages |-> <<[text |-> <<88, 8722>>, err |-> None]>>]
BadX == [name |-> NameOf(1), openErr |-> Some(BAD), pages |-> <<>>]
GoodY == [name |-> NameOf(2), openErr |-> None,
          pages |-> <<[text |-> <<89, 8722>>, err |-> None]>>]
SessionBatches == {<<>>, <<GoodX>>, <<BadX, GoodY>>}

\* SelectKey that lets the environment default win over the entered key.
SelectKey_EnvFirst(default_key, entered) ==
    IF default_key # "" THEN default_key ELSE entered

\* ------------------------------------------------------------ the sidebar
\* The API key the sidebar hands on for a hosted backend: the key of the
\* environment unless a key is entered in the override field; without a key
\* of the environment, the key entered.
SelectKey(default_key, entered) ==
    IF default_key # ""
    THEN (IF entered # "" THEN entered ELSE default_key)
    ELSE entered

\* backend, model_name, api_key and base_url as the sidebar sets them.
Sidebar(backend_display, entered, url) ==
    CASE backend_display = "OpenAI" ->
           [backend |-> "openai", model_name |-> "gpt-5-mini",
            api_key |-> SelectKey(DEFAULT_OPENAI_KEY, entered), base_url |-> None]
      [] backend_display = "Gemini" ->
           [backend |-> "gemini", model_name |-> "gemini-2.5-flash-lite",
            api_key |-> SelectKey(DEFAULT_GEMINI_KEY, entered), base_url |-> None]
      [] OTHER ->
           [backend |-> "vllm", model_name |-> "llama3",
            api_key |-> entered, base_url |-> Some(url)]

BackendDisplays == {"OpenAI", "Gemini", "Ollama"}
\* What can be typed into the key field and the URL field of a backend.
KeyInputs(backend_display) ==
    IF backend_display = "Ollama" THEN {"ollama", ""} ELSE UserKeys
UrlInputs(backend_display) ==
    IF backend_display = "Ollama" THEN BaseUrls ELSE {""}

\* ---------------------------------------------------------------- get_rlm
\* The RLM instance, as the arguments it is constructed with.
get_rlm(backend, model_name, api_key, base_url) ==
    [backend |-> backend,
     backend_kwargs |->
        IF backend = "vllm"
        THEN [model_name |-> model_name, base_url |-> base_url,
              api_key |-> IF api_key # "" THEN api_key ELSE "ollama"]
        ELSE [model_name |-> model_name, base_url |-> None, api_key |-> api_key]]

\* ------------------------------------------- "Load PDFs & Initialize" button
\* The button's validation: the message shown, "" when the load goes ahead.
\* f"Please enter your {backend_display} API Key."
NoKeyMessage(backend_display) == "Please enter your " \o backend_display \o " API Key."

\* LoadRejection without the elif of line 125: a missing key is let through.
LoadRejection_NoKeyCheck(files, backend_display, api_key) ==
    IF files = <<>> THEN "no_files" ELSE ""

LoadRejection(files, backend_display, api_key) ==
    IF files = <<>> THEN "no_files"
    ELSE IF api_key = "" /\ backend_display # "Ollama" THEN NoKeyMessage(backend_display)
    ELSE ""

\* Lines 123-126: nothing uploaded, or no key for a hosted backend.
LoadRejected(files, backend_display, entered, url) ==
    LET sb == Sidebar(backend_display, entered, url)
        why == LoadRejection(files, backend_display, sb.api_key)
    IN  /\ pc = "idle"
        /\ why # ""
        /\ notice' = why
        /\ UNCHANGED <<session, env, pc, prompt, n_completions, extractor, aside>>

\* LoadOk without line 137: the chat history survives the reload.
LoadOk_KeepsHistory(files, text, backend_display, entered, url) ==
    LET sb == Sidebar(backend_display, entered, url)
    IN  /\ pc = "idle"
        /\ LoadRejection(files, backend_display, sb.api_key) = ""
        /\ pdf_context' = Some(text)
        /\ rlm_instance' = Some(get_rlm(sb.backend, sb.model_name, sb.api_key, sb.base_url))
        /\ context_loaded' = TRUE
        /\ notice' = "loaded"
        /\ UNCHANGED <<messages, env, pc, prompt, n_completions, extractor, aside>>

\* Lines 128-138: extraction, then get_rlm returns.
LoadOk(files, text, backend_display, entered, url) ==
    LET sb == Sidebar(backend_display, entered, url)
    IN  /\ pc = "idle"
        /\ LoadRejection(files, backend_display, sb.api_key) = ""
        /\ pdf_context' = Some(text)
        /\ rlm_instance' = Some(get_rlm(sb.backend, sb.model_name, sb.api_key, sb.base_url))
        /\ context_loaded' = TRUE
        /\ messages' = <<>>
        /\ notice' = "loaded"
        /\ UNCHANGED <<env, pc, prompt, n_completions, extractor, aside>>

\* LoadInitFailed with line 136 moved out of the try: the flag is set although
\* get_rlm raised.
LoadInitFailed_FlagSet(files, text, backend_display, entered, url) ==
    LET sb == Sidebar(backend_display, entered, url)
    IN  /\ pc = "idle"
        /\ LoadRejection(files, backend_display, sb.api_key) = ""
        /\ pdf_context' = Some(text)
        /\ context_loaded' = TRUE
        /\ notice' = "init_failed"
        /\ UNCHANGED <<messages, rlm_instance>>
        /\ UNCHANGED <<env, pc, prompt, n_completions, extractor, aside>>

\* Lines 128-134, 139-140: extraction, then get_rlm raises.
LoadInitFailed(files, text, backend_display, entered, url) ==
    LET sb == Sidebar(backend_display, entered, url)
    IN  /\ pc = "idle"
        /\ LoadRejection(files, backend_display, sb.api_key) = ""
        /\ pdf_context' = Some(text)
        /\ notice' = "init_failed"
        /\ UNCHANGED <<messages, rlm_instance, context_loaded>>
        /\ UNCHANGED <<env, pc, prompt, n_completions, extractor, aside>>

\* ------------------------------------------------------------- chat input
UserMessage(content) == [role |-> "user", content |-> content]
AssistantMessage(content) == [role |-> "assistant", content |-> content]

\* AskRejected that records the question all the same.
AskRejected_Records(q) ==
    /\ pc = "idle"
    /\ ~context_loaded
    /\ messages' = Append(messages, UserMessage(q))
    /\ notice' = "not_loaded"
    /\ UNCHANGED <<rlm_instance, pdf_context, context_loaded, env, pc, prompt,
                   n_completions, extractor, aside>>

\* Lines 159-160: a question before anything is loaded.
AskRejected(q) ==
    /\ pc = "idle"
    /\ ~context_loaded
    /\ notice' = "not_loaded"
    /\ UNCHANGED <<session, env, pc, prompt, n_completions, extractor, aside>>

\* AskBegin that does not wait for the handler in progress.
AskBegin_WhileAnswering(q) ==
    /\ context_loaded
    /\ n_completions < MaxAsks
    /\ messages' = Append(messages, UserMessage(q))
    /\ prompt' = q
    /\ pc' = "answering"
    /\ notice' = "thinking"
    /\ UNCHANGED <<rlm_instance, pdf_context, context_loaded, env,
                   n_completions, extractor, aside>>

\* Lines 161-169: the question is appended and the completion is started.
AskBegin(q) ==
    /\ pc = "idle"
    /\ context_loaded
    /\ n_completions < MaxAsks
    /\ messages' = Append(messages, UserMessage(q))
    /\ prompt' = q
    /\ pc' = "answering"
    /\ notice' = "thinking"
    /\ UNCHANGED <<rlm_instance, pdf_context, context_loaded, env,
                   n_completions, extractor, aside>>

\* CompletionCall with the document pasted into the instruction as well.
CompletionCall_Merged ==
    [rlm |-> rlm_instance, prompt |-> pdf_context,
     root_prompt |-> <<STRICT_QUERY_PREFIX>> \o Val(pdf_context) \o prompt]

\* The arguments of rlm.completion (lines 171-179).
CompletionCall ==
    [rlm |-> rlm_instance, prompt |-> pdf_context,
     root_prompt |-> <<STRICT_QUERY_PREFIX>> \o prompt]

\* The answer recorded for response.response (lines 181-183).
AnswerOf(response) ==
    IF IsNone(response) THEN <<FALLBACK_ANSWER>> ELSE Val(response)

\* EngineReturns that puts the answer in the place of the question.
EngineReturns_Overwrites(response) ==
    /\ pc = "answering"
    /\ n_completions' = n_completions + 1
    /\ messages' = [messages EXCEPT ![Len(messages)] = AssistantMessage(AnswerOf(response))]
    /\ pc' = "idle"
    /\ notice' = "answered"
    /\ UNCHANGED <<rlm_instance, pdf_context, context_loaded, env, prompt, extractor, aside>>

\* Lines 171-188: rlm.completion returns a response.
EngineReturns(response) ==
    /\ pc = "answering"
    /\ n_completions' = n_completions + 1
    /\ messages' = Append(messages, AssistantMessage(AnswerOf(response)))
    /\ pc' = "idle"
    /\ notice' = "answered"
    /\ UNCHANGED <<rlm_instance, pdf_context, context_loaded, env, prompt, extractor, aside>>

\* f"Error: {e}"
ErrorMessage(e) == ERR_PREFIX \o e

\* EngineRaises without line 193: the error is shown but not recorded.
EngineRaises_Silent(e) ==
    /\ pc = "answering"
    /\ n_completions' = n_completions + 1
    /\ pc' = "idle"
    /\ notice' = "engine_error"
    /\ UNCHANGED <<session, env, prompt, extractor, aside>>

\* EngineRaises that calls rlm.completion a second time before giving up.
EngineRaises_Retries(e) ==
    /\ pc = "answering"
    /\ n_completions' = n_completions + 2
    /\ messages' = Append(messages, AssistantMessage(ErrorMessage(e)))
    /\ pc' = "idle"
    /\ notice' = "engine_error"
    /\ UNCHANGED <<rlm_instance, pdf_context, context_loaded, env, prompt, extractor, aside>>

\* Lines 171-179, 190-193: rlm.completion raises e.
EngineRaises(e) ==
    /\ pc = "answering"
    /\ n_completions' = n_completions + 1
    /\ messages' = Append(messages, AssistantMessage(ErrorMessage(e)))
    /\ pc' = "idle"
    /\ notice' = "engine_error"
    /\ UNCHANGED <<rlm_instance, pdf_context, context_loaded, env, prompt, extractor, aside>>

\* ------------------------------------------------- session specification
SessionInit ==
    /\ messages = <<>>
    /\ rlm_instance = None
    /\ pdf_context = None
    /\ context_loaded = FALSE
    /\ pc = "idle"
    /\ prompt = <<>>
    /\ notice = ""
    /\ n_completions = 0

ExtractorIdle ==
    /\ uploaded_files = <<>>
    /\ xpc = "idle"
    /\ file_idx = 0
    /\ page_num = 0
    /\ all_text = <<>>
    /\ file_text = <<>>
    /\ open_docs = {}
    /\ result = None

\* The widgets and the normaliser's trace while their specifications are not run.
AsideIdle ==
    /\ widgets = [files |-> <<>>, backend_display |-> "OpenAI", entered |-> "", url |-> ""]
    /\ norm_trace = <<>>

Init ==
    /\ SessionInit
    /\ DEFAULT_OPENAI_KEY \in EnvKeys
    /\ DEFAULT_GEMINI_KEY \in EnvKeys
    /\ ExtractorIdle
    /\ AsideIdle

Load ==
    \E files \in SessionBatches :
      LET pdf_text == extract_text_from_pdfs(files)
      IN  \E backend_display \in BackendDisplays :
            \E entered \in KeyInputs(backend_display), url \in UrlInputs(backend_display) :
              \/ LoadRejected(files, backend_display, entered, url)
              \/ LoadOk(files, pdf_text, backend_display, entered, url)
              \/ LoadInitFailed(files, pdf_text, backend_display, entered, url)

Ask ==
    \/ \E q \in Questions : AskRejected(q) \/ AskBegin(q)
    \/ \E response \in Responses : EngineReturns(response)
    \/ \E e \in Failures : EngineRaises(e)

Next == Load \/ Ask

Spec == Init /\ [][Next]_vars

\* ---------------------------------------------- extraction specification
\* extract_text_from_pdfs step by step: one action per exit of the body of the
\* file loop and of the page loop.
CurrentFile == uploaded_files[file_idx]

\* Lines 74-78, 93-94: file.read() or fitz.open() raises; the handler records it.
OpenFails ==
    /\ xpc = "file"
    /\ file_idx <= Len(uploaded_files)
    /\ ~IsNone(CurrentFile.openErr)
    /\ all_text' = Append(all_text, ErrorMarker(CurrentFile.name, Val(CurrentFile.openErr)))
    /\ file_idx' = file_idx + 1
    /\ UNCHANGED <<uploaded_files, xpc, page_num, file_text, open_docs, result>>
    /\ UNCHANGED <<session, env, script, aside>>

\* Lines 74-80: the document is opened and file_text starts with the banner.
OpenFile ==
    /\ xpc = "file"
    /\ file_idx <= Len(uploaded_files)
    /\ IsNone(CurrentFile.openErr)
    /\ open_docs' = open_docs \cup {file_idx}
    /\ file_text' = <<FileBanner(CurrentFile.name)>>
    /\ page_num' = 1
    /\ xpc' = "pages"
    /\ UNCHANGED <<uploaded_files, file_idx, all_text, result>>
    /\ UNCHANGED <<session, env, script, aside>>

\* Lines 82-88: one page is read.
ReadPage ==
    /\ xpc = "pages"
    /\ page_num <= Len(CurrentFile.pages)
    /\ IsNone(CurrentFile.pages[page_num].err)
    /\ file_text' = file_text \o PageParts(CurrentFile.pages[page_num], page_num)
    /\ page_num' = page_num + 1
    /\ UNCHANGED <<uploaded_files, xpc, file_idx, all_text, open_docs, result>>
    /\ UNCHANGED <<session, env, script, aside>>

\* PageFails with the try closed before the page loop: the exception of
\* page.get_text() leaves extract_text_from_pdfs.
PageFails_Propagates ==
    /\ xpc = "pages"
    /\ page_num <= Len(CurrentFile.pages)
    /\ ~IsNone(CurrentFile.pages[page_num].err)
    /\ xpc' = "raised"
    /\ UNCHANGED <<uploaded_files, file_idx, page_num, all_text, file_text,
                   open_docs, result>>
    /\ UNCHANGED <<session, env, script, aside>>

\* PageFails that keeps what was read of the file in front of the marker.
PageFails_KeepsPartial ==
    /\ xpc = "pages"
    /\ page_num <= Len(CurrentFile.pages)
    /\ ~IsNone(CurrentFile.pages[page_num].err)
    /\ all_text' = Append(all_text,
                          Concat(file_text)
                          \o ErrorMarker(CurrentFile.name,
                                         Val(CurrentFile.pages[page_num].err)))
    /\ file_idx' = file_idx + 1
    /\ xpc' = "file"
    /\ UNCHANGED <<uploaded_files, page_num, file_text, open_docs, result>>
    /\ UNCHANGED <<session, env, script, aside>>

\* Lines 84, 93-94: page.get_text() raises; the handler records it and the
\* loop goes on with the next file (doc.close() of line 90 is not reached).
PageFails ==
    /\ xpc = "pages"
    /\ page_num <= Len(CurrentFile.pages)
    /\ ~IsNone(CurrentFile.pages[page_num].err)
    /\ all_text' = Append(all_text,
                          ErrorMarker(CurrentFile.name, Val(CurrentFile.pages[page_num].err)))
    /\ file_idx' = file_idx + 1
    /\ xpc' = "file"
    /\ UNCHANGED <<uploaded_files, page_num, file_text, open_docs, result>>
    /\ UNCHANGED <<session, env, script, aside>>

\* CloseDoc with all_text.insert(0, ...) for all_text.append(...).
CloseDoc_Prepends ==
    /\ xpc = "pages"
    /\ page_num > Len(CurrentFile.pages)
    /\ open_docs' = open_docs \ {file_idx}
    /\ all_text' = <<Concat(file_text)>> \o all_text
    /\ file_idx' = file_idx + 1
    /\ xpc' = "file"
    /\ UNCHANGED <<uploaded_files, page_num, file_text, result>>
    /\ UNCHANGED <<session, env, script, aside>>

\* Lines 90-91: the pages are exhausted; the document is closed and its text kept.
CloseDoc ==
    /\ xpc = "pages"
    /\ page_num > Len(CurrentFile.pages)
    /\ open_docs' = open_docs \ {file_idx}
    /\ all_text' = Append(all_text, Concat(file_text))
    /\ file_idx' = file_idx + 1
    /\ xpc' = "file"
    /\ UNCHANGED <<uploaded_files, page_num, file_text, result>>
    /\ UNCHANGED <<session, env, script, aside>>

\* Line 96: the files are exhausted.
Return ==
    /\ xpc = "file"
    /\ file_idx > Len(uploaded_files)
    /\ result' = Some(Join(NL, all_text))
    /\ xpc' = "done"
    /\ UNCHANGED <<uploaded_files, file_idx, page_num, all_text, file_text, open_docs>>
    /\ UNCHANGED <<session, env, script, aside>>

ExtractInit ==
    /\ SessionInit
    /\ DEFAULT_OPENAI_KEY = ""
    /\ DEFAULT_GEMINI_KEY = ""
    /\ uploaded_files \in Batches
    /\ xpc = "file"
    /\ file_idx = 1
    /\ page_num = 0
    /\ all_text = <<>>
    /\ file_text = <<>>
    /\ open_docs = {}
    /\ result = None
    /\ AsideIdle

ExtractNext == OpenFails \/ OpenFile \/ ReadPage \/ PageFails \/ CloseDoc \/ Return

SpecExtract == ExtractInit /\ [][ExtractNext]_vars

\* The step-by-step extraction returns what extract_text_from_pdfs computes.
ExtractAgrees ==
    xpc = "done" => result = Some(extract_text_from_pdfs(uploaded_files))

\* ------------------------------------------------ the sidebar, widget by widget
\* The values the sidebar's widgets and the uploader can hold together.
WidgetValues ==
    {w \in [files : SessionBatches, backend_display : BackendDisplays,
            entered : UserKeys \cup {"ollama"}, url : BaseUrls] :
        /\ w.entered \in KeyInputs(w.backend_display)
        /\ w.url \in UrlInputs(w.backend_display)}

\* The user changes a widget: the script is rerun with the button not pressed,
\* so the messages of the previous run are no longer shown.
SetWidgets ==
    /\ pc = "idle"
    /\ widgets' \in WidgetValues \ {widgets}
    /\ notice' = ""
    /\ UNCHANGED <<session, env, pc, prompt, n_completions, extractor, norm_trace>>

\* The user presses "Load PDFs & Initialize" with the widgets as they are.
ClickLoad ==
    LET pdf_text == extract_text_from_pdfs(widgets.files)
    IN  \/ LoadRejected(widgets.files, widgets.backend_display, widgets.entered, widgets.url)
        \/ LoadOk(widgets.files, pdf_text, widgets.backend_display, widgets.entered,
                  widgets.url)
        \/ LoadInitFailed(widgets.files, pdf_text, widgets.backend_display,
                          widgets.entered, widgets.url)

ConfigureInit ==
    /\ SessionInit
    /\ DEFAULT_OPENAI_KEY \in EnvKeys
    /\ DEFAULT_GEMINI_KEY \in EnvKeys
    /\ ExtractorIdle
    /\ widgets \in WidgetValues
    /\ norm_trace = <<>>

ConfigureNext == SetWidgets \/ ClickLoad

SpecConfigure == ConfigureInit /\ [][ConfigureNext]_vars

\* What the sidebar resolves from the widgets in the current state.
Resolved == Sidebar(widgets.backend_display, widgets.entered, widgets.url)
Hosted == widgets.backend_display \in {"OpenAI", "Gemini"}
\* A load was attempted with the widgets as they are now.
Clicked == notice # ""

\* ------------------------------------------- normalize_text, applied repeatedly
\* The longest text given to normalize_text.
MaxTextLen == 2

\* Code points of the texts: ASCII ('.', '?', 'e'), the combining acute accent
\* (composes with 'e'), characters that NFKC rewrites (ellipsis, no-break
\* space, micro sign, circled one, one half), characters of the substitution
\* table (pi, minus sign, right arrow) and one that neither covers (e acute).
NormAlphabet == {46, 63, 101, 769, 8230, 160, 181, 9312, 189, 960, 8722, 8594, 233}

NormInputs == UNION {[1..n -> NormAlphabet] : n \in 0..MaxTextLen}

\* normalize_text is called on the text, then on its own result.
NormalizeStep ==
    /\ Len(norm_trace) \in 1..2
    /\ norm_trace' = Append(norm_trace, normalize_text(norm_trace[Len(norm_trace)]))
    /\ UNCHANGED <<session, env, script, extractor, widgets>>

NormalizeInit ==
    /\ SessionInit
    /\ DEFAULT_OPENAI_KEY = ""
    /\ DEFAULT_GEMINI_KEY = ""
    /\ ExtractorIdle
    /\ widgets = [files |-> <<>>, backend_display |-> "OpenAI", entered |-> "", url |-> ""]
    /\ norm_trace \in {<<text>> : text \in NormInputs}

NormalizeNext == NormalizeStep

SpecNormalize == NormalizeInit /\ [][NormalizeNext]_vars

\* ================================================================ claims
IsPrefix(a, b) == Len(a) <= Len(b) /\ SubSeq(b, 1, Len(a)) = a
LoadFailureNotices ==
    {"no_files", "init_failed"} \cup {NoKeyMessage(b) : b \in BackendDisplays}

\* C1: a loadDocuments that fails leaves corpus, engine handle, history and
\* isReady exactly as they were.  (The statement of the claim; the code
\* stores the extracted text before get_rlm is tried.)
C1_FailedLoadKeepsSession ==
    [][notice' \in LoadFailureNotices => UNCHANGED session]_vars

\* C2: in every reachable state, context_loaded implies that a corpus is
\* stored and that an engine handle is stored.
C2_ReadyImpliesCorpusAndEngine ==
    context_loaded => ~IsNone(pdf_context) /\ ~IsNone(rlm_instance)

\* A failed load after a successful one and a question: the session is still ready.
C2_Witness ==
    context_loaded /\ notice = "init_failed" /\ Len(messages) > 0

\* C3: as long as no load has succeeded, also after failed loads, no question
\* is accepted: the history is empty, no completion is in progress or was
\* made, and the step that rejects a question changes no session field.
C3_AskBeforeLoadRejected ==
    /\ [](~context_loaded =>
            messages = <<>> /\ pc = "idle" /\ n_completions = 0 /\ IsNone(rlm_instance))
    /\ [][notice' = "not_loaded" =>
            ~context_loaded /\ UNCHANGED <<session, pc, n_completions>>]_vars

\* A question was rejected after a load that failed in get_rlm.
C3_Witness ==
    notice = "not_loaded" /\ ~IsNone(pdf_context) /\ ~context_loaded

\* C4: a successful load ends with the session ready and the history empty,
\* whatever the history was; every other step keeps the history as a prefix
\* of the new history.
C4_OnlyLoadClearsHistory ==
    [][/\ notice' = "loaded" => messages' = <<>> /\ context_loaded' /\ pc' = "idle"
       /\ notice' # "loaded" => IsPrefix(messages, messages')]_vars

\* A successful reload after questions were answered.
C4_Witness ==
    notice = "loaded" /\ messages = <<>> /\ n_completions > 0 /\ context_loaded

Last(seq) == seq[Len(seq)]
RoleAt(i) == IF i % 2 = 1 THEN "user" ELSE "assistant"
Alternates(history) == \A i \in 1..Len(history) : history[i].role = RoleAt(i)

\* C5: an accepted question appends one user message carrying the question,
\* and the step that ends the completion, whatever the engine did, appends
\* one assistant message and leaves the session ready; so the history
\* alternates user, assistant, with even length whenever no question is in
\* progress.
C5_AskAppendsUserThenAssistant ==
    /\ [](/\ Alternates(messages)
          /\ pc = "idle" => Len(messages) % 2 = 0
          /\ pc = "answering" => Len(messages) % 2 = 1 /\ Last(messages) = UserMessage(prompt))
    /\ [][/\ (pc = "idle" /\ pc' = "answering") =>
                prompt' \in Questions /\ messages' = Append(messages, UserMessage(prompt'))
          /\ pc = "answering" =>
                /\ pc' = "idle" /\ context_loaded'
                /\ Len(messages') = Len(messages) + 1
                /\ IsPrefix(messages, messages')
                /\ Last(messages').role = "assistant"]_vars

\* Two questions were answered: one by an absent answer, one by a failure.
C5_Witness ==
    /\ pc = "idle" /\ Len(messages) = 4
    /\ messages[2].content = <<FALLBACK_ANSWER>>
    /\ messages[4].content = ERR_PREFIX \o BAD

\* C6: no assistant message of the history has empty content: an empty or
\* absent answer is replaced by the fallback text.  (The statement of the
\* claim; the code replaces an absent answer only.)
C6_NoEmptyAssistantMessage ==
    \A i \in 1..Len(messages) :
        messages[i].role = "assistant" => messages[i].content # <<>>

\* C7: when the completion raises, "Error: " followed by the failure text is
\* appended as the assistant message, corpus and engine handle are unchanged
\* and the session is ready for the next question; the completion is called
\* once per question, in no other step.
C7_EngineFailureRecorded ==
    [][/\ notice' = "engine_error" =>
            /\ pc = "answering" /\ pc' = "idle" /\ context_loaded'
            /\ \E e \in Failures :
                 messages' = Append(messages, AssistantMessage(ERR_PREFIX \o e))
            /\ UNCHANGED <<pdf_context, rlm_instance, context_loaded>>
       /\ n_completions' = n_completions + (IF pc = "answering" THEN 1 ELSE 0)]_vars

\* A question is accepted right after a question that failed.
C7_Witness ==
    /\ pc = "answering" /\ Len(messages) = 3
    /\ messages[2] = AssistantMessage(ERR_PREFIX \o BAD)

NumRole(history, role) == Cardinality({i \in 1..Len(history) : history[i].role = role})

Contains(s, sub) ==
    \E k \in 1..(Len(s) - Len(sub) + 1) : SubSeq(s, k, k + Len(sub) - 1) = sub
\* The first position of sub in s, 0 when there is none.
Pos(sub, s) ==
    LET at == {k \in 1..(Len(s) - Len(sub) + 1) : SubSeq(s, k, k + Len(sub) - 1) = sub}
    IN  IF at = {} THEN 0 ELSE CHOOSE k \in at : \A j \in at : k <= j

\* The exception that working on a file raises, None for a file that is read
\* to its end.
FailureOf(file) ==
    IF ~IsNone(file.openErr) THEN file.openErr
    ELSE LET bad == {p \in 1..Len(file.pages) : ~IsNone(file.pages[p].err)}
         IN  IF bad = {} THEN None
             ELSE file.pages[CHOOSE p \in bad : \A q \in bad : p <= q].err
Failed(file) == ~IsNone(FailureOf(file))
\* The pages of a file that have text.
TextPages(file) == {p \in 1..Len(file.pages) : StripNonEmpty(file.pages[p].text)}
\* The banner, or the error marker, that stands for the i-th file.
MarkOf(file) ==
    IF Failed(file) THEN ErrorMarker(file.name, Val(FailureOf(file)))
    ELSE FileBanner(file.name)

\* C9: whatever files fail to open or to read, no exception leaves the
\* extraction; the returned text holds the banner and every page text of each
\* file that did not fail and an error marker naming each file that failed.
C9_ExtractIsolatesFailures ==
    /\ xpc # "raised"
    /\ xpc = "done" =>
         /\ ~IsNone(result)
         /\ \A i \in 1..Len(uploaded_files) :
              LET file == uploaded_files[i]
              IN  IF Failed(file)
                  THEN Contains(Val(result), ErrorMarker(file.name, Val(FailureOf(file))))
                  ELSE /\ Contains(Val(result), FileBanner(file.name))
                       /\ \A p \in TextPages(file) :
                            Contains(Val(result),
                                     PageBanner(p) \o normalize_text(file.pages[p].text))

\* The first file failed on its second page, after a page was read; the second
\* file has text.
C9_Witness ==
    /\ xpc = "done" /\ Len(uploaded_files) = 2
    /\ IsNone(uploaded_files[1].openErr)
    /\ Len(uploaded_files[1].pages) = 2
    /\ TextPages(uploaded_files[1]) = {1}
    /\ Failed(uploaded_files[1])
    /\ ~Failed(uploaded_files[2]) /\ TextPages(uploaded_files[2]) # {}

\* The part of the returned text r that belongs to the i-th of n files: from
\* its mark up to the separator before the next file's mark.
FragmentOf(r, files, i) ==
    SubSeq(r, Pos(MarkOf(files[i]), r),
           IF i < Len(files) THEN Pos(MarkOf(files[i + 1]), r) - 2 ELSE Len(r))

\* C10: the returned text is one fragment per file in input order, separated
\* by newlines: the marks of the files appear in input order, inside a
\* file's fragment its page banners appear in increasing page number, each
\* followed by that page's text, and no text of another file is inside it.
C10_OrderPreserved ==
    xpc = "done" =>
        LET files == uploaded_files
            r == Val(result)
            n == Len(files)
        IN  /\ n = 0 => r = <<>>
            /\ n > 0 => Pos(MarkOf(files[1]), r) = 1
            /\ \A i \in 1..(n - 1) :
                 /\ Pos(MarkOf(files[i]), r) < Pos(MarkOf(files[i + 1]), r)
                 /\ r[Pos(MarkOf(files[i + 1]), r) - 1] = 10
            /\ \A i \in 1..n :
                 LET frag == FragmentOf(r, files, i)
                 IN  /\ \A j \in 1..n : j # i =>
                            \A k \in 1..Len(frag) : frag[k] # NameOf(j)[1]
                     /\ ~Failed(files[i]) =>
                          /\ \A p \in TextPages(files[i]) :
                               Contains(frag, PageBanner(p)
                                              \o normalize_text(files[i].pages[p].text))
                          /\ \A p, q \in TextPages(files[i]) :
                               p < q => Pos(PageBanner(p), frag) < Pos(PageBanner(q), frag)

\* Two files that are read to their end, the second with text on two pages.
C10_Witness ==
    /\ xpc = "done" /\ Len(uploaded_files) = 2
    /\ ~Failed(uploaded_files[1]) /\ TextPages(uploaded_files[1]) # {}
    /\ ~Failed(uploaded_files[2]) /\ TextPages(uploaded_files[2]) = {1, 2}

\* C11: the document opened for a file is closed before the next file is
\* worked on and before the return, on every path: at most one document is
\* open, and none between two files or at the end.  (The statement of the
\* claim; doc.close() is the last statement but one of the try block and is
\* skipped when page.get_text() raises.)
C11_HandlesClosed ==
    /\ Cardinality(open_docs) <= 1
    /\ xpc \in {"file", "done"} => open_docs = {}

\* The environment default of the selected hosted backend.
DefaultKey ==
    IF widgets.backend_display = "OpenAI" THEN DEFAULT_OPENAI_KEY ELSE DEFAULT_GEMINI_KEY
NoCredential == widgets.entered = "" /\ DefaultKey = ""
HostedBackends == {"openai", "gemini"}

\* C12: a load for OpenAI or Gemini with files uploaded and no credential
\* (no entered key, no environment default) is refused with the message that
\* names the backend, and the session, its engine handle included, stays as it
\* was; with a credential the load is not refused and goes on to get_rlm,
\* whose handle carries a credential.  No hosted handle without a key is ever
\* stored.
C12_HostedNeedsCredential ==
    /\ [](Hosted /\ widgets.files # <<>> /\ Clicked =>
            IF NoCredential
            THEN notice = (IF widgets.backend_display = "OpenAI"
                           THEN "Please enter your OpenAI API Key."
                           ELSE "Please enter your Gemini API Key.")
            ELSE notice \in {"loaded", "init_failed"})
    /\ [][widgets' = widgets /\ Hosted /\ widgets.files # <<>> /\ NoCredential =>
            UNCHANGED session]_vars
    /\ [](~IsNone(rlm_instance) /\ Val(rlm_instance).backend \in HostedBackends =>
            Val(rlm_instance).backend_kwargs.api_key # "")

\* A session loaded with a key, then the key is removed and Load is pressed
\* again for Gemini: the refusal names Gemini and the handle is the old one.
C12_Witness ==
    /\ widgets.backend_display = "Gemini" /\ widgets.files # <<>> /\ NoCredential
    /\ notice = "Please enter your Gemini API Key."
    /\ context_loaded /\ ~IsNone(rlm_instance)

\* C13: every engine handle built for the local backend carries a base URL
\* that is neither absent nor empty.  (The statement of the claim; get_rlm
\* passes base_url on as it receives it, and the default address is only the
\* initial content of the sidebar's text field.)
C13_LocalModelHasBaseUrl ==
    ~IsNone(rlm_instance) /\ Val(rlm_instance).backend = "vllm" =>
        Val(rlm_instance).backend_kwargs.base_url \notin {None, Some("")}

\* C14: while an accepted question is being answered, rlm.completion is called
\* with prompt equal to the stored document text and root_prompt equal to
\* STRICT_QUERY_PREFIX immediately followed by the question as it was recorded
\* in the history; the document text does not occur in root_prompt.
C14_SeparateChannels ==
    pc = "answering" =>
        /\ ~IsNone(pdf_context)
        /\ CompletionCall.rlm = rlm_instance
        /\ CompletionCall.prompt = pdf_context
        /\ Last(messages).role = "user"
        /\ CompletionCall.root_prompt = <<STRICT_QUERY_PREFIX>> \o Last(messages).content
        /\ ~Contains(CompletionCall.root_prompt, Val(pdf_context))

\* The second question of a session is being answered.
C14_Witness ==
    /\ pc = "answering" /\ Len(messages) = 3
    /\ CompletionCall.root_prompt = <<STRICT_QUERY_PREFIX>> \o Q_WHY
    /\ Len(Val(pdf_context)) > 0

\* What the chat handler shows: every step of an ask ends with one of these.
AskNotices == {"not_loaded", "thinking", "answered", "engine_error"}

\* C15: every step of an ask (rejected, accepted, answered or failed) leaves
\* the document text, the engine handle and the ready flag as they were, and
\* the history before the step is a prefix of the history after it.
C15_AskOnlyAppends ==
    [][notice' \in AskNotices =>
        /\ UNCHANGED <<pdf_context, rlm_instance, context_loaded>>
        /\ IsPrefix(messages, messages')]_vars

\* Two questions were asked, one failed and one was answered.
C15_Witness ==
    /\ notice = "answered" /\ Len(messages) = 4
    /\ messages[2].content = ErrorMessage(BAD)
    /\ context_loaded

\* C16: normalising a normalised text changes nothing:
\* normalize_text(normalize_text(s)) = normalize_text(s) for every text s.
C16_NormalizeIdempotent ==
    Len(norm_trace) = 3 => norm_trace[3] = norm_trace[2]

\* A text with a character NFKC expands and one of the substitution table,
\* normalised twice; the first pass changed it.
C16_Witness ==
    /\ Len(norm_trace) = 3
    /\ norm_trace[1] = <<8230, 8594>>
    /\ norm_trace[2] = <<46, 46, 46, 45, 62>>

\* C17: normalize_text returns for every text, and every character of what
\* it returns has a code point below 128; a character that neither NFKC nor
\* the substitution table turns into ASCII comes out as '?'.
C17_NormalizeAscii ==
    Len(norm_trace) >= 2 =>
        /\ \A i \in 1..Len(norm_trace[2]) : norm_trace[2][i] \in 0..127
        /\ (\A i \in 1..Len(norm_trace[1]) : norm_trace[1][i] = 233) =>
               norm_trace[2] = [i \in 1..Len(norm_trace[1]) |-> 63]

\* An accented letter that NFKC composes and no table entry covers:
\* "e", U+0301 gives "?".
C17_Witness ==
    /\ Len(norm_trace) >= 2
    /\ norm_trace[1] = <<101, 769>>
    /\ norm_trace[2] = <<63>>

\* C18: the key a hosted backend is configured with is the key entered in the
\* sidebar whenever one is entered, and the environment default only when
\* none is entered; the handle stored by a successful load carries that key.
C18_OverrideBeforeDefault ==
    Hosted =>
        /\ Resolved.api_key = (IF widgets.entered # "" THEN widgets.entered ELSE DefaultKey)
        /\ notice = "loaded" =>
              Val(rlm_instance).backend_kwargs.api_key =
                 (IF widgets.entered # "" THEN widgets.entered ELSE DefaultKey)

\* OpenAI loaded with a key entered although the environment has a default.
C18_Witness ==
    /\ widgets.backend_display = "OpenAI" /\ notice = "loaded"
    /\ widgets.entered = "sk-user" /\ DEFAULT_OPENAI_KEY = "sk-env"
    /\ Val(rlm_instance).backend_kwargs.api_key = "sk-user"

\* C19: the document text a question is answered from is the one extracted by
\* the last load that succeeded: in a session that accepts questions the
\* stored text changes only in the step of a successful load, which also
\* stores the engine handle and empties the history.  (The statement of the
\* claim; a load whose get_rlm raises has already replaced the text.)
C19_CorpusOfLastSuccessfulLoad ==
    [][context_loaded' /\ pdf_context' # pdf_context =>
          notice' = "loaded" /\ messages' = <<>> /\ ~IsNone(rlm_instance')]_vars

\* C20: every file contributes exactly one fragment to the returned text,
\* which is the newline-joined list of the fragments: for a file that failed
\* the fragment is its error marker and nothing else, and neither its banner
\* nor the text of its pages read before the failure is in the returned text;
\* for a file read to its end the fragment starts with its banner and holds
\* no error marker.
C20_OneFragmentPerFile ==
    xpc = "done" =>
        /\ Len(all_text) = Len(uploaded_files)
        /\ result = Some(Join(NL, all_text))
        /\ \A i \in 1..Len(uploaded_files) :
             LET file == uploaded_files[i]
             IN  IF Failed(file)
                 THEN /\ all_text[i] = ErrorMarker(file.name, Val(FailureOf(file)))
                      /\ ~Contains(Val(result), FileBanner(file.name))
                      /\ \A p \in TextPages(file) :
                           ~Contains(Val(result), normalize_text(file.pages[p].text))
                 ELSE /\ IsPrefix(FileBanner(file.name), all_text[i])
                      /\ ~Contains(all_text[i], ERR_READING)

\* The second of two files fails on its second page after a page with text was
\* read; the first file is read to its end.
C20_Witness ==
    /\ xpc = "done" /\ Len(uploaded_files) = 2
    /\ ~Failed(uploaded_files[1])
    /\ IsNone(uploaded_files[2].openErr) /\ Failed(uploaded_files[2])
    /\ TextPages(uploaded_files[2]) = {1}
    /\ all_text[2] = ErrorMarker(uploaded_files[2].name, BAD)

====
